---- MODULE Spec2Model ----
(***************************************************************************)
(* Model of the transaction lifecycle of the cosmos client library:        *)
(* CosmosClient (client.rs), Signer::sign (signer.rs), the two transports  *)
(* (rpc/json_rpc.rs, rpc/grpc.rs), the confirmation poller (cosmos/tx.rs)  *)
(* and Bank::send (cosmos/bank.rs).                                        *)
(*                                                                         *)
(* Spec follows one client and the chain, SpecPoll the poller, SpecCoop    *)
(* the poller beside another task of its thread, SpecPair two clients      *)
(* whose operations interleave, SpecSign two calls of Signer::sign.        *)
(*                                                                         *)
(* Option<T> is modelled as a tuple: None == <<>>, Some(x) == <<x>>.       *)
(* CosmosResult<T> is modelled as a record [ok, val, err]; err is a tuple  *)
(* whose head names the variant of error::Error.                           *)
(* u64 values that take part in the gas arithmetic are little-endian       *)
(* tuples of four 16-bit limbs, so that the 64-bit width is kept exactly.  *)
(***************************************************************************)
EXTENDS Integers, Sequences, FiniteSets, TLC

VARIABLES
    chain_id,      \* CosmosClient.chain_id : Option<String>
    signer,        \* CosmosClient.signer : Option<Signer>
    account_id,    \* CosmosClient.account_id : Option<u64>
    sequence_id,   \* CosmosClient.sequence_id : Option<u64>
    rpc,           \* which transport the client was built with
    chainSeq,      \* remote chain: current sequence number of every address
    last,          \* observation of the last completed client operation
    pollPc,        \* poll_for_tx: position in the loop
    pollIter,      \* poll_for_tx: loop iterations started (the `for _ in 0..60`)
    pollQueries,   \* poll_for_tx: get_tx queries issued
    pollSleeps,    \* poll_for_tx: sleeps taken
    pollFoundAt,   \* remote chain: first attempt at which the hash is found (0: never)
    pollResult,    \* poll_for_tx: returned value
    otherSteps,    \* steps taken by another task of the thread that runs poll_for_tx
    pair,          \* two further clients whose operations interleave at their awaits
    signing        \* two calls of Signer::sign: their inputs and what they returned

vars == <<chain_id, signer, account_id, sequence_id, rpc, chainSeq, last,
          pollPc, pollIter, pollQueries, pollSleeps, pollFoundAt, pollResult,
          otherSteps, pair, signing>>

clientVars == <<chain_id, signer, account_id, sequence_id>>
pollVars == <<pollPc, pollIter, pollQueries, pollSleeps, pollFoundAt, pollResult,
             otherSteps>>

----------------------------------------------------------------------------
(* Bounds of the model *)

MaxSeq == 2
\* the hash of the poller is found at one of the attempts 1..PollHorizon, or never
PollHorizon == 61
\* the steps another task of the poller's thread is followed for
MaxOtherSteps == 2

----------------------------------------------------------------------------
(* Option and Result *)

None == <<>>
Some(x) == <<x>>
IsNone(o) == o = <<>>
IsSome(o) == o # <<>>
Unwrap(o) == o[1]

Ok(v) == [ok |-> TRUE, val |-> v, err |-> <<>>]
Err(e) == [ok |-> FALSE, val |-> <<>>, err |-> e]

\* error::Error variants
NoSignerAttached == <<"NoSignerAttached">>
CannotSimulateTxGasFee == <<"CannotSimulateTxGasFee">>
AccountDoesNotExist(address) == <<"AccountDoesNotExist", address>>
NoVestingBaseAccount == <<"NoVestingBaseAccount">>
NoneTxResponse == <<"NoneTxResponse">>
TXPollingTimeout == <<"TXPollingTimeout">>
RpcError(log) == <<"RpcError", log>>
DecodeError == <<"DecodeError">>
TendermintRpcError == <<"TendermintRpcError">>
TendermintError == <<"TendermintError">>
ErrorReport == <<"ErrorReport">>
TonicError == <<"TonicError">>
TonicStatus == <<"TonicStatus">>

\* Abnormal termination of the calling thread (a Rust panic), which is not a
\* value of CosmosResult.
Panic(why) == [ok |-> FALSE, val |-> <<>>, err |-> <<"panic", why>>]
IsPanic(r) == ~r.ok /\ Len(r.err) > 0 /\ r.err[1] = "panic"

----------------------------------------------------------------------------
(* u64 arithmetic on 16-bit limbs (least significant limb first) *)

LimbBase == 2^16
U64Limbs == 64 \div 16

\* a value below 2^31 as a u64
U64(v) == <<v % LimbBase, v \div LimbBase, 0, 0>>

MaxU64 == <<65535, 65535, 65535, 65535>>

RECURSIVE MulCarry(_, _, _)
\* the exact product x * m of a limb tuple by a small factor: one limb longer than x
MulCarry(x, m, carry) ==
    IF x = <<>> THEN <<carry>>
    ELSE LET p == Head(x) * m + carry
         IN  <<p % LimbBase>> \o MulCarry(Tail(x), m, p \div LimbBase)

MulExact(x, m) == MulCarry(x, m, 0)

RECURSIVE DivRem(_, _)
\* long division of a limb tuple by a small divisor: [q, r]
DivRem(x, d) ==
    IF x = <<>> THEN [q |-> <<>>, r |-> 0]
    ELSE LET hi  == DivRem(Tail(x), d)
             cur == hi.r * LimbBase + Head(x)
         IN  [q |-> <<cur \div d>> \o hi.q, r |-> cur % d]

DivFloor(x, d) == DivRem(x, d).q

\* the low 64 bits of a limb tuple, and whether anything lies above them
Low64(x) == SubSeq(x, 1, U64Limbs)
Overflows64(x) == \E i \in (U64Limbs + 1)..Len(x) : x[i] # 0
Widen(x, n) == x \o [i \in 1..(n - Len(x)) |-> 0]

RECURSIVE LimbsLeq(_, _)
\* x <= y for limb tuples of equal length
LimbsLeq(x, y) ==
    IF x = <<>> THEN TRUE
    ELSE LET n == Len(x)
         IN  IF x[n] # y[n] THEN x[n] < y[n]
             ELSE LimbsLeq(SubSeq(x, 1, n - 1), SubSeq(y, 1, n - 1))

----------------------------------------------------------------------------
(* Signer (signer.rs) *)

ValidDenoms == {"uatom"}
\* self.denom.parse()? : the fee denomination must be a well-formed denom
DenomParses(d) == d \in ValidDenoms

\* chain::Id::from_str(chain_id)? : the empty string is no chain id
ChainIdParses(c) == c # ""

ChainIds == {"cosmoshub-4", ""}
Addresses == {"cosmos1alice", "cosmos1bob"}
Bodies == {"body1", "body2"}

\* The signers of the model: values of struct Signer. The private key is
\* identified by the public key derived from it.
Signers ==
    { [public_address |-> "cosmos1alice", public_key |-> "pkAlice",
       denom |-> "uatom", gas_adjustment_percent |-> 20, gas_price |-> 1],
      [public_address |-> "cosmos1bob", public_key |-> "pkBob",
       denom |-> "uatom", gas_adjustment_percent |-> 50, gas_price |-> 1],
      [public_address |-> "cosmos1alice", public_key |-> "pkAlice",
       denom |-> "u", gas_adjustment_percent |-> 0, gas_price |-> 1] }

\* Signer::sign with the sign doc signed by a key other than the signer's
sign_WithForeignKey(self, chainId, account_number, sequence, gas_info, body) ==
    IF ~DenomParses(self.denom) THEN Err(ErrorReport)
    ELSE IF ~ChainIdParses(chainId) THEN Err(TendermintError)
    ELSE Ok([body           |-> body,
             public_key     |-> self.public_key,
             sequence       |-> sequence,
             fee_amount     |-> self.gas_price,
             fee_denom      |-> self.denom,
             gas_limit      |-> gas_info,
             chain_id       |-> chainId,
             account_number |-> account_number,
             signed_by      |-> "pkForeign"])

\* Signer::sign: the signed transaction bytes, as the fields they encode.
sign(self, chainId, account_number, sequence, gas_info, body) ==
    IF ~DenomParses(self.denom) THEN Err(ErrorReport)
    ELSE IF ~ChainIdParses(chainId) THEN Err(TendermintError)
    ELSE Ok([body           |-> body,
             public_key     |-> self.public_key,
             sequence       |-> sequence,
             fee_amount     |-> self.gas_price,
             fee_denom      |-> self.denom,
             gas_limit      |-> gas_info,
             chain_id       |-> chainId,
             account_number |-> account_number,
             signed_by      |-> self.public_key])

\* The signature inside the signed bytes: `sign_doc.sign(&self.private_key)`
\* is given the sign doc (body, auth info, chain id, account number) and the
\* key and nothing else, and the ECDSA signer behind it derives its nonce
\* from the key and the message (RFC 6979): the signature is a function of
\* the key and the sign doc.
SignatureOf(tx) ==
    [key |-> tx.signed_by,
     doc |-> [body |-> tx.body, public_key |-> tx.public_key, sequence |-> tx.sequence,
              fee_amount |-> tx.fee_amount, fee_denom |-> tx.fee_denom,
              gas_limit |-> tx.gas_limit, chain_id |-> tx.chain_id,
              account_number |-> tx.account_number]]

----------------------------------------------------------------------------
(* The remote side: what the node can answer to one call *)

AccountPath == "/cosmos.auth.v1beta1.Query/Account"
SimulatePath == "/cosmos.tx.v1beta1.Service/Simulate"
GetTxPath == "/cosmos.tx.v1beta1.Service/GetTx"

BaseAccountUrl == "/cosmos.auth.v1beta1.BaseAccount"
VestingAccountUrl == "/cosmos.vesting.v1beta1.ContinuousVestingAccount"
UnknownAccountUrl == "/unknown.Account"

\* the chain-assigned account number of an address
AccountNumberOf(address) == IF address = "cosmos1alice" THEN 7 ELSE 9

\* Protobuf bytes, as the message they encode. Empty bytes decode to the
\* default message of any type; garbage decodes to nothing.
EmptyBytes == [wire |-> "empty"]
GarbageBytes == [wire |-> "garbage"]
EncodeBaseAccount(n, s) ==
    [wire |-> "BaseAccount", account_number |-> n, sequence |-> s]
EncodeVestingAccount(base_vesting_account) ==
    [wire |-> "ContinuousVestingAccount", base_vesting_account |-> base_vesting_account]

\* BaseAccount::decode
DecodeBaseAccount(bytes) ==
    IF bytes.wire = "BaseAccount"
    THEN Ok([account_number |-> bytes.account_number, sequence |-> bytes.sequence])
    ELSE IF bytes.wire = "empty"
    THEN Ok([account_number |-> 0, sequence |-> 0])
    ELSE Err(DecodeError)

\* ContinuousVestingAccount::decode
DecodeVestingAccount(bytes) ==
    IF bytes.wire = "ContinuousVestingAccount"
    THEN Ok([base_vesting_account |-> bytes.base_vesting_account])
    ELSE IF bytes.wire = "empty"
    THEN Ok([base_vesting_account |-> None])
    ELSE Err(DecodeError)

\* The accounts the node can hold for an address whose account number is n
\* and whose sequence number is s: QueryAccountResponse.account
AccountAnys(n, s) ==
    LET base == [account_number |-> n, sequence |-> s]
    IN  { [type_url |-> BaseAccountUrl, value |-> EncodeBaseAccount(n, s)],
          [type_url |-> BaseAccountUrl, value |-> GarbageBytes],
          [type_url |-> VestingAccountUrl,
           value |-> EncodeVestingAccount(Some([base_account |-> Some(base)]))],
          [type_url |-> VestingAccountUrl,
           value |-> EncodeVestingAccount(Some([base_account |-> None]))],
          [type_url |-> VestingAccountUrl, value |-> EncodeVestingAccount(None)],
          [type_url |-> VestingAccountUrl, value |-> GarbageBytes],
          [type_url |-> UnknownAccountUrl, value |-> EncodeBaseAccount(n, s)] }

\* What the remote side does with one request: it cannot be reached, it
\* reports a non-success status with a log, it answers bytes that do not
\* decode, or it answers.
RemoteFailures ==
    { [kind |-> "unreachable"], [kind |-> "status", log |-> "internal"],
      [kind |-> "garbled"] }
RemoteOk(response) == [kind |-> "ok", response |-> response]

RemoteAccountOutcomes(address) ==
    RemoteFailures
    \cup { RemoteOk([account |-> None]) }
    \cup { RemoteOk([account |-> Some(any)]) :
             any \in AccountAnys(AccountNumberOf(address), chainSeq[address]) }

\* gas values a simulation can report
\* 2^64 \div 100 + 1: the least gas used whose hundredfold exceeds 64 bits
OverflowingGas == <<36701, 62914, 23592, 655>>

GasUsedValues == { U64(1), U64(100000), OverflowingGas, MaxU64 }

RemoteSimulateOutcomes ==
    RemoteFailures
    \cup { RemoteOk([gas_info |-> None]) }
    \cup { RemoteOk([gas_info |-> Some([gas_used |-> g])]) : g \in GasUsedValues }

\* BroadcastTxResponse.tx_response: absent, or a result whose txhash is or is
\* not a well-formed hash
RemoteBroadcastOutcomes ==
    RemoteFailures
    \cup { RemoteOk([tx_response |-> None]) }
    \cup { RemoteOk([tx_response |-> Some([txhash_ok |-> h])]) : h \in BOOLEAN }

----------------------------------------------------------------------------
(* The transports (rpc/json_rpc.rs, rpc/grpc.rs). Each operation yields its  *)
(* result and the calls it put on the wire.                                  *)

Out(res, wire) == [res |-> res, wire |-> wire]

\* path.parse(): the paths are URI paths
PathParses(path) == path \in {AccountPath, SimulatePath, GetTxPath}

\* JsonRpc::query
JsonRpc_query(path, msg, remote) ==
    LET wire == << <<"abci_query", path>> >>
    IN  IF remote.kind = "unreachable" THEN Out(Err(TendermintRpcError), wire)
        ELSE IF remote.kind = "status" THEN Out(Err(RpcError(remote.log)), wire)
        ELSE IF remote.kind = "garbled" THEN Out(Err(DecodeError), wire)
        ELSE Out(Ok(remote.response), wire)

\* Grpc::query
Grpc_query(path, msg, remote) ==
    IF remote.kind = "unreachable"
    THEN Out(Err(TonicError), << <<"ready">> >>)
    ELSE IF ~PathParses(path)
    THEN Out(Err(<<"QueryPath", path>>), << <<"ready">> >>)
    ELSE LET wire == << <<"ready">>, <<"unary", path>> >>
         IN  IF remote.kind \in {"status", "garbled"}
             THEN Out(Err(TonicStatus), wire)
             ELSE Out(Ok(remote.response), wire)

\* JsonRpc::simulate_tx
JsonRpc_simulate_tx(payload, remote) ==
    JsonRpc_query(SimulatePath, [tx_bytes |-> payload], remote)

\* Grpc::simulate_tx with the request sent although the connection failed
Grpc_simulate_tx_SendsUnconnected(payload, remote) ==
    LET wire == << <<"connect">>, <<"simulate">> >>
    IN  IF remote.kind = "unreachable" THEN Out(Err(TonicError), wire)
        ELSE IF remote.kind \in {"status", "garbled"}
        THEN Out(Err(TonicStatus), wire)
        ELSE Out(Ok(remote.response), wire)

\* Grpc::simulate_tx
Grpc_simulate_tx(payload, remote) ==
    IF remote.kind = "unreachable"
    THEN Out(Err(TonicError), << <<"connect">> >>)
    ELSE LET wire == << <<"connect">>, <<"simulate">> >>
         IN  IF remote.kind \in {"status", "garbled"}
             THEN Out(Err(TonicStatus), wire)
             ELSE Out(Ok(remote.response), wire)

\* JsonRpc::broadcast_tx_async and JsonRpc::broadcast_tx_sync: the HTTP
\* client returns the response or its own error; an answer without a result
\* or with a malformed hash does not deserialize, which is the client's error
JsonRpc_broadcast_tx(mode, payload, remote) ==
    LET wire == << <<"http_broadcast", mode>> >>
    IN  IF remote.kind # "ok" THEN Out(Err(TendermintRpcError), wire)
        ELSE IF IsNone(remote.response.tx_response)
        THEN Out(Err(TendermintRpcError), wire)
        ELSE IF ~Unwrap(remote.response.tx_response).txhash_ok
        THEN Out(Err(TendermintRpcError), wire)
        ELSE Out(Ok([mode |-> mode, hash |-> "txhash"]), wire)

\* Grpc_broadcast_tx with a missing tx_response taken as the default one
Grpc_broadcast_tx_DefaultsMissingResponse(mode, payload, remote) ==
    IF remote.kind = "unreachable"
    THEN Out(Err(TonicError), << <<"connect">> >>)
    ELSE LET wire == << <<"connect">>, <<"broadcast_tx", mode>> >>
         IN  IF remote.kind \in {"status", "garbled"}
             THEN Out(Err(TonicStatus), wire)
             ELSE IF IsNone(remote.response.tx_response)
             THEN Out(Ok([mode |-> mode, hash |-> ""]), wire)
             ELSE IF ~Unwrap(remote.response.tx_response).txhash_ok
             THEN Out(Panic("Hash::from_str"), wire)
             ELSE Out(Ok([mode |-> mode, hash |-> "txhash"]), wire)

\* Grpc::broadcast_tx_async and Grpc::broadcast_tx_sync
Grpc_broadcast_tx(mode, payload, remote) ==
    IF remote.kind = "unreachable"
    THEN Out(Err(TonicError), << <<"connect">> >>)
    ELSE LET wire == << <<"connect">>, <<"broadcast_tx", mode>> >>
         IN  IF remote.kind \in {"status", "garbled"}
             THEN Out(Err(TonicStatus), wire)
             ELSE IF IsNone(remote.response.tx_response)
             THEN Out(Err(NoneTxResponse), wire)
             ELSE IF ~Unwrap(remote.response.tx_response).txhash_ok
             THEN Out(Panic("Hash::from_str"), wire)
             ELSE Out(Ok([mode |-> mode, hash |-> "txhash"]), wire)

Transports == {"JsonRpc", "Grpc"}

\* trait Rpc, dispatched on the transport t the client holds
Rpc_query(t, path, msg, remote) ==
    IF t = "JsonRpc" THEN JsonRpc_query(path, msg, remote)
    ELSE Grpc_query(path, msg, remote)

Rpc_simulate_tx(t, payload, remote) ==
    IF t = "JsonRpc" THEN JsonRpc_simulate_tx(payload, remote)
    ELSE Grpc_simulate_tx(payload, remote)

Rpc_broadcast_tx_async(t, payload, remote) ==
    IF t = "JsonRpc" THEN JsonRpc_broadcast_tx("async", payload, remote)
    ELSE Grpc_broadcast_tx("async", payload, remote)

Rpc_broadcast_tx_sync(t, payload, remote) ==
    IF t = "JsonRpc" THEN JsonRpc_broadcast_tx("sync", payload, remote)
    ELSE Grpc_broadcast_tx("sync", payload, remote)

----------------------------------------------------------------------------
(* CosmosClient (client.rs). `self` is the client value; every operation    *)
(* yields its result, the client after it, the calls it made on trait Rpc   *)
(* (with what the remote side answered), the calls put on the wire and the  *)
(* payloads it signed.                                                      *)

\* with_json_rpc / with_grpc
NewClient(t) ==
    [chain_id |-> None, signer |-> None, account_id |-> None,
     sequence_id |-> None, rpc |-> t]

Done(res, self, calls, wire, signed) ==
    [res |-> res, self |-> self, calls |-> calls, wire |-> wire, signed |-> signed]

RpcCall(name, arg, remote) == [name |-> name, arg |-> arg, remote |-> remote]

\* CosmosClient::query
query(self, path, msg, env) ==
    LET out == Rpc_query(self.rpc, path, msg, env.query)
    IN  Done(out.res, self, <<RpcCall("query", <<path, msg>>, env.query)>>, out.wire, <<>>)

\* StoreAccount without the assignment of the account number
StoreAccount_SequenceOnly(self, account) ==
    [self EXCEPT !.sequence_id = Some(account.sequence)]

\* update_sequence_id, `self.sequence_id = Some(account.sequence);
\* self.account_id = Some(account.account_number);`
StoreAccount(self, account) ==
    [self EXCEPT !.sequence_id = Some(account.sequence),
                 !.account_id = Some(account.account_number)]

\* VestingBaseAccount with the numbers of the wrapper, which has none, in place
\* of those of the wrapped base account
VestingBaseAccount_ReadsWrapper(vesting) ==
    IF IsNone(vesting.base_vesting_account) THEN Err(NoVestingBaseAccount)
    ELSE IF IsNone(Unwrap(vesting.base_vesting_account).base_account)
    THEN Err(NoVestingBaseAccount)
    ELSE Ok([account_number |-> 0, sequence |-> 0])

\* VestingBaseAccount with a missing base vesting account or base account
\* taken as the default base account, as `unwrap_or_default()` would
VestingBaseAccount_DefaultsMissing(vesting) ==
    IF IsNone(vesting.base_vesting_account)
    THEN Ok([account_number |-> 0, sequence |-> 0])
    ELSE IF IsNone(Unwrap(vesting.base_vesting_account).base_account)
    THEN Ok([account_number |-> 0, sequence |-> 0])
    ELSE Ok(Unwrap(Unwrap(vesting.base_vesting_account).base_account))

\* update_sequence_id, the vesting arm: the base account inside the base
\* vesting account of a decoded ContinuousVestingAccount
VestingBaseAccount(vesting) ==
    IF IsNone(vesting.base_vesting_account) THEN Err(NoVestingBaseAccount)
    ELSE IF IsNone(Unwrap(vesting.base_vesting_account).base_account)
    THEN Err(NoVestingBaseAccount)
    ELSE Ok(Unwrap(Unwrap(vesting.base_vesting_account).base_account))

\* MatchAccount with an unknown account type treated as a fresh account
MatchAccount_DefaultsUnknown(self, address, account) ==
    IF account.type_url = BaseAccountUrl
    THEN LET dec == DecodeBaseAccount(account.value)
         IN  IF ~dec.ok THEN [res |-> dec, self |-> self]
             ELSE [res |-> Ok(<<>>), self |-> StoreAccount(self, dec.val)]
    ELSE IF account.type_url = VestingAccountUrl
    THEN LET dec == DecodeVestingAccount(account.value)
         IN  IF ~dec.ok THEN [res |-> dec, self |-> self]
             ELSE LET base == VestingBaseAccount(dec.val)
                  IN  IF ~base.ok THEN [res |-> base, self |-> self]
                      ELSE [res |-> Ok(<<>>), self |-> StoreAccount(self, base.val)]
    ELSE [res |-> Ok(<<>>),
          self |-> StoreAccount(self, [account_number |-> 0, sequence |-> 0])]

\* update_sequence_id, `match account.type_url.as_str()` and the error after
\* it: the result and the client after it
MatchAccount(self, address, account) ==
    IF account.type_url = BaseAccountUrl
    THEN LET dec == DecodeBaseAccount(account.value)
         IN  IF ~dec.ok THEN [res |-> dec, self |-> self]
             ELSE [res |-> Ok(<<>>), self |-> StoreAccount(self, dec.val)]
    ELSE IF account.type_url = VestingAccountUrl
    THEN LET dec == DecodeVestingAccount(account.value)
         IN  IF ~dec.ok THEN [res |-> dec, self |-> self]
             ELSE LET base == VestingBaseAccount(dec.val)
                  IN  IF ~base.ok THEN [res |-> base, self |-> self]
                      ELSE [res |-> Ok(<<>>), self |-> StoreAccount(self, base.val)]
    ELSE [res |-> Err(AccountDoesNotExist(address)), self |-> self]

\* CosmosClient::update_sequence_id
update_sequence_id(self, env) ==
    IF IsNone(self.signer) THEN Done(Err(NoSignerAttached), self, <<>>, <<>>, <<>>)
    ELSE
    LET address == Unwrap(self.signer).public_address
        q       == query(self, AccountPath, [address |-> address], env)
    IN  IF ~q.res.ok THEN q
        ELSE IF IsNone(q.res.val.account)
        THEN [q EXCEPT !.res = Err(AccountDoesNotExist(address))]
        ELSE LET m == MatchAccount(self, address, Unwrap(q.res.val.account))
             IN  [q EXCEPT !.res = m.res, !.self = m.self]

\* CosmosClient::attach_signer
attach_signer(self, chainId, sgn, env) ==
    update_sequence_id([self EXCEPT !.chain_id = Some(chainId), !.signer = Some(sgn)], env)

\* the placeholder gas of the simulation payload
SimulateGas == 100

\* SimulateSigned with a failed rpc.simulate_tx invoked a second time
SimulateSigned_RetriesOnce(self, body, env) ==
    LET tx == sign(Unwrap(self.signer), Unwrap(self.chain_id), Unwrap(self.account_id),
                   Unwrap(self.sequence_id), U64(100), body)
    IN  IF ~tx.ok THEN Done(tx, self, <<>>, <<>>, <<>>)
        ELSE LET out  == Rpc_simulate_tx(self.rpc, tx.val, env.sim)
                 call == RpcCall("simulate_tx", tx.val, env.sim)
             IN  IF out.res.ok
                 THEN Done(out.res, self, <<call>>, out.wire, <<tx.val>>)
                 ELSE Done(out.res, self, <<call, call>>, out.wire \o out.wire, <<tx.val>>)

\* SimulateSigned with the simulation payload signed with a gas taken from
\* the signer's configuration
SimulateSigned_GasFromSigner(self, body, env) ==
    LET tx == sign(Unwrap(self.signer), Unwrap(self.chain_id), Unwrap(self.account_id),
                   Unwrap(self.sequence_id),
                   U64(100 + Unwrap(self.signer).gas_adjustment_percent), body)
    IN  IF ~tx.ok THEN Done(tx, self, <<>>, <<>>, <<>>)
        ELSE LET out == Rpc_simulate_tx(self.rpc, tx.val, env.sim)
             IN  Done(out.res, self, <<RpcCall("simulate_tx", tx.val, env.sim)>>,
                      out.wire, <<tx.val>>)

\* simulate_tx once the signer, chain id, account number and sequence are at
\* hand: sign with the placeholder gas, then rpc.simulate_tx
SimulateSigned(self, body, env) ==
    LET tx == sign(Unwrap(self.signer), Unwrap(self.chain_id), Unwrap(self.account_id),
                   Unwrap(self.sequence_id), U64(SimulateGas), body)
    IN  IF ~tx.ok THEN Done(tx, self, <<>>, <<>>, <<>>)
        ELSE LET out == Rpc_simulate_tx(self.rpc, tx.val, env.sim)
             IN  Done(out.res, self, <<RpcCall("simulate_tx", tx.val, env.sim)>>,
                      out.wire, <<tx.val>>)

\* simulate_tx with the transport called before the signer is looked at
simulate_tx_CallsBeforeSignerCheck(self, body, env) ==
    IF IsNone(self.signer) \/ IsNone(self.chain_id)
       \/ IsNone(self.account_id) \/ IsNone(self.sequence_id)
    THEN LET out == Rpc_simulate_tx(self.rpc, body, env.sim)
         IN  Done(Err(NoSignerAttached), self, <<RpcCall("simulate_tx", body, env.sim)>>,
                  out.wire, <<>>)
    ELSE SimulateSigned(self, body, env)

\* CosmosClient::simulate_tx
simulate_tx(self, body, env) ==
    IF IsNone(self.signer) \/ IsNone(self.chain_id)
       \/ IsNone(self.account_id) \/ IsNone(self.sequence_id)
    THEN Done(Err(NoSignerAttached), self, <<>>, <<>>, <<>>)
    ELSE SimulateSigned(self, body, env)

\* gas_info.mul_assign(100 + pct); gas_info.div_assign(100) on u64: a build
\* with overflow checks panics on a product beyond 64 bits, a build without
\* them keeps the low 64 bits
ScaleGas(gas_used, pct, overflow_checks) ==
    LET product == MulExact(gas_used, 100 + pct)
    IN  IF Overflows64(product) /\ overflow_checks
        THEN Panic("attempt to multiply with overflow")
        ELSE Ok(DivFloor(Low64(product), 100))

\* sign_tx after the simulation: scale the gas used and sign for real
SignForReal(self, body, env, sim, gas_used) ==
    IF IsNone(self.signer) THEN [sim EXCEPT !.res = Err(NoSignerAttached)]
    ELSE
    LET sgn == Unwrap(self.signer)
        gas == ScaleGas(gas_used, sgn.gas_adjustment_percent, env.overflow_checks)
    IN  IF ~gas.ok THEN [sim EXCEPT !.res = gas]
        ELSE IF IsNone(self.chain_id) \/ IsNone(self.account_id)
                \/ IsNone(self.sequence_id)
        THEN [sim EXCEPT !.res = Err(NoSignerAttached)]
        ELSE
        LET tx == sign(sgn, Unwrap(self.chain_id), Unwrap(self.account_id),
                       Unwrap(self.sequence_id), gas.val, body)
        IN  [sim EXCEPT !.res = tx,
                        !.signed = IF tx.ok THEN @ \o <<tx.val>> ELSE @]

\* sign_tx without the gas_info check: `unwrap_or_default()` alone, which
\* takes a missing gas_info as zero gas used
sign_tx_DefaultsMissingGas(self, body, env) ==
    LET sim == simulate_tx(self, body, env)
    IN  IF ~sim.res.ok THEN sim
        ELSE SignForReal(self, body, env, sim,
                         IF IsNone(sim.res.val.gas_info) THEN U64(0)
                         ELSE Unwrap(sim.res.val.gas_info).gas_used)

\* CosmosClient::sign_tx
sign_tx(self, body, env) ==
    LET sim == simulate_tx(self, body, env)
    IN  IF ~sim.res.ok THEN sim
        ELSE IF IsNone(sim.res.val.gas_info)
        THEN [sim EXCEPT !.res = Err(CannotSimulateTxGasFee)]
        ELSE SignForReal(self, body, env, sim, Unwrap(sim.res.val.gas_info).gas_used)

\* broadcast_tx_sync with the error of sign_tx looked at only after the
\* payload signed last has been sent
broadcast_tx_sync_SendsBeforeErrorCheck(self, body, env) ==
    LET payload == sign_tx(self, body, env)
    IN  IF payload.signed = <<>> THEN payload
        ELSE LET tx  == payload.signed[Len(payload.signed)]
                 out == Rpc_broadcast_tx_sync(self.rpc, tx, env.bcast)
             IN  [payload EXCEPT
                    !.res = IF payload.res.ok THEN out.res ELSE @,
                    !.calls = @ \o <<RpcCall("broadcast_tx_sync", tx, env.bcast)>>,
                    !.wire = @ \o out.wire]

\* broadcast_tx_sync with the stored sequence number advanced once the
\* transport has returned a response
broadcast_tx_sync_AdvancesSequence(self, body, env) ==
    LET payload == sign_tx(self, body, env)
    IN  IF ~payload.res.ok THEN payload
        ELSE LET out == Rpc_broadcast_tx_sync(self.rpc, payload.res.val, env.bcast)
             IN  [payload EXCEPT
                    !.res = out.res,
                    !.self = IF out.res.ok
                             THEN [self EXCEPT !.sequence_id = Some(Unwrap(@) + 1)]
                             ELSE self,
                    !.calls = @ \o <<RpcCall("broadcast_tx_sync", payload.res.val, env.bcast)>>,
                    !.wire = @ \o out.wire]

\* CosmosClient::broadcast_tx_sync
broadcast_tx_sync(self, body, env) ==
    LET payload == sign_tx(self, body, env)
    IN  IF ~payload.res.ok THEN payload
        ELSE LET out == Rpc_broadcast_tx_sync(self.rpc, payload.res.val, env.bcast)
             IN  [payload EXCEPT
                    !.res = out.res,
                    !.calls = @ \o <<RpcCall("broadcast_tx_sync", payload.res.val, env.bcast)>>,
                    !.wire = @ \o out.wire]

\* broadcast_tx_async delegating to the transport's other broadcast call
broadcast_tx_async_SendsSync(self, body, env) ==
    LET payload == sign_tx(self, body, env)
    IN  IF ~payload.res.ok THEN payload
        ELSE LET out == Rpc_broadcast_tx_sync(self.rpc, payload.res.val, env.bcast)
             IN  [payload EXCEPT
                    !.res = out.res,
                    !.calls = @ \o <<RpcCall("broadcast_tx_sync", payload.res.val, env.bcast)>>,
                    !.wire = @ \o out.wire]

\* CosmosClient::broadcast_tx_async
broadcast_tx_async(self, body, env) ==
    LET payload == sign_tx(self, body, env)
    IN  IF ~payload.res.ok THEN payload
        ELSE LET out == Rpc_broadcast_tx_async(self.rpc, payload.res.val, env.bcast)
             IN  [payload EXCEPT
                    !.res = out.res,
                    !.calls = @ \o <<RpcCall("broadcast_tx_async", payload.res.val, env.bcast)>>,
                    !.wire = @ \o out.wire]

----------------------------------------------------------------------------
(* Bank (cosmos/bank.rs) *)

MsgSendUrl == "/cosmos.bank.v1beta1.MsgSend"

\* BodyBuilder::new(): no message, an empty memo
BodyBuilderNew == [messages |-> <<>>, memo |-> ""]

\* what Bank::send is called with
Amounts == { <<>>, <<[denom |-> "uatom", amount |-> 5]>> }
Memos == { None, Some("thanks") }

\* Bank::send with the recipient written into from_address
Bank_send_FromRecipient(self, to_address, amount, memo) ==
    IF IsNone(self.signer) THEN Done(Err(NoSignerAttached), self, <<>>, <<>>, <<>>)
    ELSE
    LET msg == [type_url |-> MsgSendUrl, from_address |-> to_address,
                to_address |-> to_address, amount |-> amount]
        withMsg == [BodyBuilderNew EXCEPT !.messages = @ \o <<msg>>]
        builder == IF IsSome(memo) THEN [withMsg EXCEPT !.memo = Unwrap(memo)]
                   ELSE withMsg
    IN  Done(Ok(builder), self, <<>>, <<>>, <<>>)

\* Bank::send
Bank_send(self, to_address, amount, memo) ==
    IF IsNone(self.signer) THEN Done(Err(NoSignerAttached), self, <<>>, <<>>, <<>>)
    ELSE
    LET msg == [type_url |-> MsgSendUrl,
                from_address |-> Unwrap(self.signer).public_address,
                to_address |-> to_address, amount |-> amount]
        withMsg == [BodyBuilderNew EXCEPT !.messages = @ \o <<msg>>]
        builder == IF IsSome(memo) THEN [withMsg EXCEPT !.memo = Unwrap(memo)]
                   ELSE withMsg
    IN  Done(Ok(builder), self, <<>>, <<>>, <<>>)

----------------------------------------------------------------------------
(* The remote chain *)

ChainId == "cosmoshub-4"

AddressOfKey(public_key) == IF public_key = "pkAlice" THEN "cosmos1alice" ELSE "cosmos1bob"

\* the node processes a delivered transaction: it is accepted when it carries
\* the chain's id and the signer's account number and current sequence
Accepts(seqs, tx) ==
    LET address == AddressOfKey(tx.public_key)
    IN  /\ tx.chain_id = ChainId
        /\ tx.account_number = AccountNumberOf(address)
        /\ tx.sequence = seqs[address]
        /\ seqs[address] < MaxSeq

Delivered(call) ==
    /\ call.name \in {"broadcast_tx_sync", "broadcast_tx_async"}
    /\ call.remote.kind = "ok"
    /\ IsSome(call.remote.response.tx_response)

\* the chain's sequence numbers after the calls of one client operation
ChainAfter(seqs, calls) ==
    IF \E i \in 1..Len(calls) : Delivered(calls[i]) /\ Accepts(seqs, calls[i].arg)
    THEN LET i == CHOOSE j \in 1..Len(calls) : Delivered(calls[j]) /\ Accepts(seqs, calls[j].arg)
             address == AddressOfKey(calls[i].arg.public_key)
         IN  [seqs EXCEPT ![address] = @ + 1]
    ELSE seqs

----------------------------------------------------------------------------
(* State machine of one client and the chain *)

Client ==
    [chain_id |-> chain_id, signer |-> signer, account_id |-> account_id,
     sequence_id |-> sequence_id, rpc |-> rpc]

\* what the last completed operation did: its name and argument, the chain's
\* sequence number of the attached signer when it ran, and what the operation
\* yielded
Observe(op, arg, o) ==
    [op |-> op, arg |-> arg,
     chain_seq |-> IF IsNone(o.self.signer) THEN None
                   ELSE Some(chainSeq[Unwrap(o.self.signer).public_address]),
     res |-> o.res, calls |-> o.calls, wire |-> o.wire, signed |-> o.signed]

\* no call is in flight: the caller has taken the result of the last one
NoCall ==
    [op |-> "none", arg |-> <<>>, chain_seq |-> None, res |-> Ok(<<>>),
     calls |-> <<>>, wire |-> <<>>, signed |-> <<>>]

Apply(op, arg, o) ==
    /\ chain_id' = o.self.chain_id
    /\ signer' = o.self.signer
    /\ account_id' = o.self.account_id
    /\ sequence_id' = o.self.sequence_id
    /\ rpc' = o.self.rpc
    /\ chainSeq' = ChainAfter(chainSeq, o.calls)
    /\ last' = Observe(op, arg, o)
    /\ UNCHANGED <<pollVars, pair, signing>>

\* two clients, each built on its own transport, with no operation in flight
PairIds == {1, 2}
PairTransport(i) == IF i = 1 THEN "JsonRpc" ELSE "Grpc"
PairIdle == [stage |-> "idle"]
InitialPair ==
    [i \in PairIds |->
        [self |-> NewClient(PairTransport(i)), flight |-> PairIdle, resolved_for |-> None]]

\* Signer::sign has not been called
NoSigning == [stage |-> "idle"]

PollIdle ==
    /\ pollPc = "idle" /\ pollIter = 0 /\ pollQueries = 0 /\ pollSleeps = 0
    /\ pollFoundAt = 0 /\ pollResult = None
    /\ otherSteps = 0
    /\ pair = InitialPair
    /\ signing = NoSigning

Init ==
    /\ rpc \in Transports
    /\ chain_id = None /\ signer = None /\ account_id = None /\ sequence_id = None
    /\ chainSeq \in [Addresses -> 0..MaxSeq]
    /\ last = NoCall
    /\ PollIdle

AttachSigner ==
    /\ last = NoCall
    /\ \E c \in ChainIds, s \in Signers :
         \E remote \in RemoteAccountOutcomes(s.public_address) :
           Apply("attach_signer", <<c, s>>, attach_signer(Client, c, s, [query |-> remote]))

Query ==
    /\ last = NoCall
    /\ \E path \in {AccountPath, GetTxPath} :
         \E remote \in RemoteFailures \cup {RemoteOk([found |-> TRUE])} :
           Apply("query", <<path>>, query(Client, path, [request |-> path], [query |-> remote]))

\* The remote outcomes an operation never consulted do not distinguish two
\* runs of it: they are fixed to one value.
Unused == [kind |-> "unreachable"]
Consulted(o, name, remote) ==
    \/ \E i \in 1..Len(o.calls) : o.calls[i].name = name
    \/ remote = Unused
ChecksMatter(o, checks) == checks => IsPanic(o.res) /\ o.res.err[2] # "Hash::from_str"

Simulate ==
    /\ last = NoCall
    /\ \E body \in Bodies, remote \in RemoteSimulateOutcomes :
         LET o == simulate_tx(Client, body, [sim |-> remote])
         IN  /\ Consulted(o, "simulate_tx", remote)
             /\ Apply("simulate_tx", <<body>>, o)

BroadcastSync ==
    /\ last = NoCall
    /\ \E body \in Bodies, sim \in RemoteSimulateOutcomes,
          bcast \in RemoteBroadcastOutcomes, checks \in BOOLEAN :
         LET o == broadcast_tx_sync(Client, body,
                    [sim |-> sim, bcast |-> bcast, overflow_checks |-> checks])
         IN  /\ Consulted(o, "simulate_tx", sim)
             /\ Consulted(o, "broadcast_tx_sync", bcast)
             /\ ChecksMatter(o, checks)
             /\ Apply("broadcast_tx_sync", <<body>>, o)

BroadcastAsync ==
    /\ last = NoCall
    /\ \E body \in Bodies, sim \in RemoteSimulateOutcomes,
          bcast \in RemoteBroadcastOutcomes, checks \in BOOLEAN :
         LET o == broadcast_tx_async(Client, body,
                    [sim |-> sim, bcast |-> bcast, overflow_checks |-> checks])
         IN  /\ Consulted(o, "simulate_tx", sim)
             /\ Consulted(o, "broadcast_tx_async", bcast)
             /\ ChecksMatter(o, checks)
             /\ Apply("broadcast_tx_async", <<body>>, o)

\* Bank::send on a Bank made of the client
BankSend ==
    /\ last = NoCall
    /\ \E to \in Addresses, amount \in Amounts, memo \in Memos :
         Apply("bank_send", <<to, amount, memo>>, Bank_send(Client, to, amount, memo))

\* another client of the same account gets a transaction accepted
ChainAdvance ==
    /\ last = NoCall
    /\ \E a \in Addresses :
         /\ chainSeq[a] < MaxSeq
         /\ chainSeq' = [chainSeq EXCEPT ![a] = @ + 1]
    /\ UNCHANGED <<clientVars, rpc, last, pollVars, pair, signing>>

\* the caller takes the result of the completed operation
Return ==
    /\ last # NoCall
    /\ last' = NoCall
    /\ UNCHANGED <<clientVars, rpc, chainSeq, pollVars, pair, signing>>

Next ==
    \/ Return
    \/ AttachSigner
    \/ Query
    \/ Simulate
    \/ BroadcastSync
    \/ BroadcastAsync
    \/ BankSend
    \/ ChainAdvance

Spec == Init /\ [][Next]_vars

----------------------------------------------------------------------------
(* The confirmation poller (cosmos/tx.rs) *)

\* a loop over 0..59
PollAttemptsOneShort == 60 - 1

\* `for _ in 0..60`
PollAttempts == 60

\* what the node answers to the n-th lookup of the hash: the transaction once
\* it is found, a failure of some kind before
RemoteGetTxOutcomes(n) ==
    IF pollFoundAt # 0 /\ n >= pollFoundAt
    THEN { RemoteOk([tx |-> "record"]) }
    ELSE RemoteFailures

\* Tx::get_tx
get_tx(self, hash, env) == query(self, GetTxPath, [hash |-> hash], env)

InitPoll ==
    /\ rpc \in Transports
    /\ chain_id = None /\ signer = None /\ account_id = None /\ sequence_id = None
    /\ chainSeq = [a \in Addresses |-> 0]
    /\ last = NoCall
    /\ pollPc = "attempt" /\ pollIter = 0 /\ pollQueries = 0 /\ pollSleeps = 0
    /\ pollFoundAt \in 0..PollHorizon
    /\ pollResult = None
    /\ otherSteps = 0
    /\ pair = InitialPair
    /\ signing = NoSigning

\* PollAttempt with the error of a lookup that could not reach the node
\* returned to the caller, as `self.get_tx(hash).await?` would
PollAttempt_PropagatesTransportError ==
    /\ pollPc = "attempt"
    /\ pollIter < PollAttempts
    /\ \E remote \in RemoteGetTxOutcomes(pollQueries + 1) :
         LET tx == get_tx(Client, "hash", [query |-> remote])
         IN  /\ pollIter' = pollIter + 1
             /\ pollQueries' = pollQueries + Len(tx.calls)
             /\ IF tx.res.ok \/ remote.kind = "unreachable"
                THEN pollResult' = Some(tx.res) /\ pollPc' = "done"
                ELSE pollResult' = pollResult /\ pollPc' = "sleep"
    /\ UNCHANGED <<clientVars, rpc, chainSeq, last, pollSleeps, pollFoundAt, otherSteps,
                   pair, signing>>

\* one iteration of the loop up to its sleep: get_tx, and the return when
\* the lookup succeeded
PollAttempt ==
    /\ pollPc = "attempt"
    /\ pollIter < PollAttempts
    /\ \E remote \in RemoteGetTxOutcomes(pollQueries + 1) :
         LET tx == get_tx(Client, "hash", [query |-> remote])
         IN  /\ pollIter' = pollIter + 1
             /\ pollQueries' = pollQueries + Len(tx.calls)
             /\ IF tx.res.ok
                THEN pollResult' = Some(tx.res) /\ pollPc' = "done"
                ELSE pollResult' = pollResult /\ pollPc' = "sleep"
    /\ UNCHANGED <<clientVars, rpc, chainSeq, last, pollSleeps, pollFoundAt, otherSteps,
                   pair, signing>>

\* sleep(Duration::from_secs(3)), then the next iteration
PollSleep ==
    /\ pollPc = "sleep"
    /\ pollSleeps' = pollSleeps + 1
    /\ pollPc' = "attempt"
    /\ UNCHANGED <<clientVars, rpc, chainSeq, last, pollIter, pollQueries,
                   pollFoundAt, pollResult, otherSteps, pair, signing>>

\* the loop is exhausted: Err(Error::TXPollingTimeout)
PollTimeout ==
    /\ pollPc = "attempt"
    /\ pollIter >= PollAttempts
    /\ pollResult' = Some(Err(TXPollingTimeout))
    /\ pollPc' = "done"
    /\ UNCHANGED <<clientVars, rpc, chainSeq, last, pollIter, pollQueries,
                   pollSleeps, pollFoundAt, otherSteps, pair, signing>>

NextPoll ==
    \/ PollAttempt
    \/ PollSleep
    \/ PollTimeout

SpecPoll == InitPoll /\ [][NextPoll]_vars

\* poll_for_tx as one task of a single-threaded cooperative executor. The
\* task gives the thread back at `self.get_tx(hash).await` and when it
\* returns; `sleep` is std::thread::sleep, which keeps the thread for the
\* whole interval: between PollAttempt and PollSleep the thread is inside it.
ThreadHeldByPoller == pollPc = "sleep"

\* another ready task of the same executor runs up to its next await
OtherTaskStep ==
    /\ ~ThreadHeldByPoller
    /\ otherSteps < MaxOtherSteps
    /\ otherSteps' = otherSteps + 1
    /\ UNCHANGED <<clientVars, rpc, chainSeq, last, pollPc, pollIter, pollQueries,
                   pollSleeps, pollFoundAt, pollResult, pair, signing>>

NextCoop ==
    \/ NextPoll
    \/ OtherTaskStep

SpecCoop == InitPoll /\ [][NextCoop]_vars

----------------------------------------------------------------------------
(* Two clients on one chain. The caller runs their operations concurrently: *)
(* an operation gives way at each await on its transport, and the other      *)
(* client's operations run in between. A client is borrowed by its operation *)
(* in flight, so attach_signer (&mut self) runs only between operations.     *)

\* the operations of the client that sign, and those of them that broadcast
SigningOps == {"simulate_tx", "broadcast_tx_sync", "broadcast_tx_async"}
BroadcastOps == {"broadcast_tx_sync", "broadcast_tx_async"}

PairSigners == {s \in Signers : DenomParses(s.denom)}
PairBody == "body1"

\* the answers of the node that are followed for the two clients: it cannot
\* be reached, or it answers well
PairAccountOutcomes(address) ==
    {r \in RemoteAccountOutcomes(address) :
        \/ r.kind = "unreachable"
        \/ /\ r.kind = "ok"
           /\ IsSome(r.response.account)
           /\ Unwrap(r.response.account).type_url = BaseAccountUrl
           /\ Unwrap(r.response.account).value.wire = "BaseAccount"}
PairSimulateOutcomes ==
    {r \in RemoteSimulateOutcomes :
        \/ r.kind = "unreachable"
        \/ r.kind = "ok" /\ r.response.gas_info = Some([gas_used |-> U64(1)])}
PairBroadcastOutcomes ==
    {r \in RemoteBroadcastOutcomes :
        \/ r.kind = "unreachable"
        \/ r.kind = "ok" /\ r.response.tx_response = Some([txhash_ok |-> TRUE])}

\* the operation in flight of a client, run against the answers env
PairOp(op, self, body, env) ==
    IF op = "simulate_tx" THEN simulate_tx(self, body, env)
    ELSE IF op = "broadcast_tx_sync" THEN broadcast_tx_sync(self, body, env)
    ELSE broadcast_tx_async(self, body, env)

PairEnv(sim, bcast) == [sim |-> sim, bcast |-> bcast, overflow_checks |-> FALSE]

\* attach_signer on client i; resolved_for records the address whose account
\* the stored numbers were read from
PairAttach(i) ==
    /\ pair[i].flight = PairIdle
    /\ \E s \in PairSigners :
         \E remote \in PairAccountOutcomes(s.public_address) :
           LET o == attach_signer(pair[i].self, ChainId, s, [query |-> remote])
           IN  pair' = [pair EXCEPT
                          ![i].self = o.self,
                          ![i].resolved_for =
                              IF o.res.ok THEN Some(s.public_address) ELSE @]
    /\ UNCHANGED <<clientVars, rpc, chainSeq, last, pollVars, signing>>

\* client i starts simulate_tx or a broadcast: it signs the simulation
\* payload and awaits rpc.simulate_tx; without a signer it returns at once
PairStart(i) ==
    /\ pair[i].flight = PairIdle
    /\ \E op \in SigningOps :
         LET o == PairOp(op, pair[i].self, PairBody, PairEnv(Unused, Unused))
         IN  /\ o.signed # <<>>
             /\ pair' = [pair EXCEPT
                           ![i].flight = [stage |-> "simulating", op |-> op,
                                          sim |-> Unused, signed |-> <<o.signed[1]>>]]
    /\ UNCHANGED <<clientVars, rpc, chainSeq, last, pollVars, signing>>

\* rpc.simulate_tx of client i comes back: simulate_tx returns; a broadcast
\* signs for real and awaits the transport's broadcast, or returns the error
PairSimulated(i) ==
    /\ pair[i].flight.stage = "simulating"
    /\ \E sim \in PairSimulateOutcomes :
         LET f == pair[i].flight
             o == PairOp(f.op, pair[i].self, PairBody, PairEnv(sim, Unused))
         IN  pair' = [pair EXCEPT
                        ![i].flight =
                            IF f.op \in BroadcastOps /\ Len(o.signed) = 2
                            THEN [stage |-> "broadcasting", op |-> f.op,
                                  sim |-> sim, signed |-> o.signed]
                            ELSE PairIdle]
    /\ UNCHANGED <<clientVars, rpc, chainSeq, last, pollVars, signing>>

\* the broadcast of client i comes back: the node has processed the payload
PairBroadcast(i) ==
    /\ pair[i].flight.stage = "broadcasting"
    /\ \E bcast \in PairBroadcastOutcomes :
         LET f == pair[i].flight
             o == PairOp(f.op, pair[i].self, PairBody, PairEnv(f.sim, bcast))
         IN  /\ chainSeq' = ChainAfter(chainSeq, o.calls)
             /\ pair' = [pair EXCEPT ![i].flight = PairIdle]
    /\ UNCHANGED <<clientVars, rpc, last, pollVars, signing>>

InitPair ==
    /\ rpc = PairTransport(1)
    /\ chain_id = None /\ signer = None /\ account_id = None /\ sequence_id = None
    /\ chainSeq = [a \in Addresses |-> 0]
    /\ last = NoCall
    /\ PollIdle

NextPair ==
    \E i \in PairIds :
       \/ PairAttach(i)
       \/ PairStart(i)
       \/ PairSimulated(i)
       \/ PairBroadcast(i)

SpecPair == InitPair /\ [][NextPair]_vars

----------------------------------------------------------------------------
(* Signer::sign called twice: with one signer, chain id, gas and body, and   *)
(* with two account states that were resolved independently of each other.   *)

SignAccountStates == {AccountNumberOf(a) : a \in Addresses} \X (0..MaxSeq)
SignGasValues == {U64(100), U64(120000)}

InitSign ==
    /\ rpc \in Transports
    /\ chain_id = None /\ signer = None /\ account_id = None /\ sequence_id = None
    /\ chainSeq = [a \in Addresses |-> 0]
    /\ last = NoCall
    /\ pollPc = "idle" /\ pollIter = 0 /\ pollQueries = 0 /\ pollSleeps = 0
    /\ pollFoundAt = 0 /\ pollResult = None
    /\ otherSteps = 0
    /\ pair = InitialPair
    /\ \E s \in Signers, c \in ChainIds, g \in SignGasValues, b \in Bodies,
          a1 \in SignAccountStates, a2 \in SignAccountStates :
         signing = [stage |-> "start", signer |-> s, chain_id |-> c, gas |-> g,
                    body |-> b, account1 |-> a1, account2 |-> a2,
                    first |-> None, second |-> None]

SignFirst ==
    /\ signing.stage = "start"
    /\ signing' = [signing EXCEPT
                     !.stage = "once",
                     !.first = Some(sign(signing.signer, signing.chain_id,
                                         signing.account1[1], signing.account1[2],
                                         signing.gas, signing.body))]
    /\ UNCHANGED <<clientVars, rpc, chainSeq, last, pollVars, pair>>

SignSecond ==
    /\ signing.stage = "once"
    /\ signing' = [signing EXCEPT
                     !.stage = "twice",
                     !.second = Some(sign(signing.signer, signing.chain_id,
                                          signing.account2[1], signing.account2[2],
                                          signing.gas, signing.body))]
    /\ UNCHANGED <<clientVars, rpc, chainSeq, last, pollVars, pair>>

NextSign ==
    \/ SignFirst
    \/ SignSecond

SpecSign == InitSign /\ [][NextSign]_vars

----------------------------------------------------------------------------
(* Properties *)

CallsNamed(calls, names) == {i \in 1..Len(calls) : calls[i].name \in names}
AccountLookups(calls) ==
    {i \in 1..Len(calls) : calls[i].name = "query" /\ calls[i].arg[1] = AccountPath}

\* the simulate_tx call of the last operation came back from the transport
\* with a response
SimulationReturned ==
    \E i \in CallsNamed(last.calls, {"simulate_tx"}) : last.calls[i].remote.kind = "ok"
\* ... and the response carries gas information
SimulationHasGas ==
    \E i \in CallsNamed(last.calls, {"simulate_tx"}) :
       /\ last.calls[i].remote.kind = "ok"
       /\ IsSome(last.calls[i].remote.response.gas_info)
SimulationLacksGas ==
    \E i \in CallsNamed(last.calls, {"simulate_tx"}) :
       /\ last.calls[i].remote.kind = "ok"
       /\ IsNone(last.calls[i].remote.response.gas_info)

\* C1: with no signer attached, simulate, broadcastSync and broadcastAsync
\* return NoSignerAttached and invoke the transport zero times.
C1_NoSignerNoTransport ==
    (last.op \in SigningOps /\ IsNone(signer)) =>
        /\ last.res = Err(NoSignerAttached)
        /\ last.calls = <<>>
        /\ last.wire = <<>>

C1_Witness ==
    /\ last.op = "broadcast_tx_async"
    /\ IsNone(signer)
    /\ last.res = Err(NoSignerAttached)

\* C2: every payload signed by simulate or a broadcast carries the sequence
\* number the chain holds for the signer when the payload is signed.
C2_SignsCurrentSequence ==
    (last.op \in SigningOps /\ IsSome(last.chain_seq)) =>
        \A i \in 1..Len(last.signed) : last.signed[i].sequence = Unwrap(last.chain_seq)

\* C3: every simulate that signs issues one account-lookup query, and every
\* broadcast that signs twice issues two.
C3_ResolvesOnEveryCall ==
    /\ (last.op = "simulate_tx" /\ Len(last.signed) >= 1) =>
           Cardinality(AccountLookups(last.calls)) = 1
    /\ (last.op \in BroadcastOps /\ Len(last.signed) = 2) =>
           Cardinality(AccountLookups(last.calls)) = 2

\* C4: poll_for_tx on a hash that is not found within the 60 attempts issues
\* exactly 60 get_tx queries and returns TXPollingTimeout; on a hash first
\* found at attempt k <= 60 it returns the record after exactly k queries.
C4_PollQueryCount ==
    pollPc = "done" =>
        IF pollFoundAt = 0 \/ pollFoundAt > 60
        THEN pollQueries = 60 /\ pollResult = Some(Err(TXPollingTimeout))
        ELSE pollQueries = pollFoundAt /\ pollResult = Some(Ok([tx |-> "record"]))

C4_Witness ==
    /\ pollPc = "done"
    /\ pollFoundAt = 0
    /\ pollQueries = 60
    /\ pollResult = Some(Err(TXPollingTimeout))

\* C5: a broadcast whose simulation, gas extraction or signing failed returns
\* an error and has not invoked the transport's broadcast; a broadcast call,
\* when there is one, is the last call of the operation.
C5_NothingSentBeforeFinalBroadcast ==
    last.op \in BroadcastOps =>
        /\ ~(SimulationHasGas /\ Len(last.signed) = 2) =>
              /\ ~last.res.ok
              /\ CallsNamed(last.calls, BroadcastOps) = {}
              /\ \A i \in 1..Len(last.wire) :
                    last.wire[i][1] \notin {"http_broadcast", "broadcast_tx"}
        /\ CallsNamed(last.calls, BroadcastOps) \subseteq {Len(last.calls)}

C5_Witness ==
    /\ last.op = "broadcast_tx_sync"
    /\ SimulationLacksGas
    /\ last.res = Err(CannotSimulateTxGasFee)
    /\ CallsNamed(last.calls, BroadcastOps) = {}

\* the gas used that the simulation of the last operation reported
ReportedGasUsed ==
    LET i == CHOOSE j \in CallsNamed(last.calls, {"simulate_tx"}) : TRUE
    IN  Unwrap(last.calls[i].remote.response.gas_info).gas_used

\* floor(gasUsed * (100 + pct) / 100), computed without any width
ExactScale(gas_used, pct) == DivFloor(MulExact(gas_used, 100 + pct), 100)

\* C6: the gas limit of the broadcast payload is floor(gasUsed * (100 + pct)
\* / 100) for every reported gasUsed; scale(100000, 20) = 120000 and
\* scale(1, 50) = 1; the scaling is monotonic in gasUsed.
C6_GasLimitIsExactFloor ==
    /\ \A checks \in BOOLEAN :
          /\ ScaleGas(U64(100000), 20, checks) = Ok(U64(120000))
          /\ ScaleGas(U64(1), 50, checks) = Ok(U64(1))
    /\ (last.op \in BroadcastOps /\ SimulationHasGas) =>
          LET pct == Unwrap(signer).gas_adjustment_percent
          IN  /\ Len(last.signed) = 2
              /\ Widen(last.signed[2].gas_limit, U64Limbs + 1)
                   = ExactScale(ReportedGasUsed, pct)
              /\ \A g \in GasUsedValues :
                    LimbsLeq(g, ReportedGasUsed) =>
                       LimbsLeq(ExactScale(g, pct),
                                Widen(last.signed[2].gas_limit, U64Limbs + 1))

\* C7 as stated: simulate fails with CannotSimulateTxGasFee whenever the
\* transport's simulation succeeds without gas information, and never
\* returns a successful result without gas information.
C7_SimulateRejectsMissingGas ==
    last.op = "simulate_tx" =>
        /\ SimulationLacksGas => last.res = Err(CannotSimulateTxGasFee)
        /\ last.res.ok => IsSome(last.res.val.gas_info)

\* C7 as amended: broadcastSync and broadcastAsync fail with
\* CannotSimulateTxGasFee whenever the transport's simulation succeeds
\* without gas information; simulate returns the transport's response as it
\* is, with or without gas information.
C7_BroadcastRejectsMissingGas ==
    /\ (last.op \in BroadcastOps /\ SimulationLacksGas) =>
          /\ last.res = Err(CannotSimulateTxGasFee)
          /\ Len(last.signed) = 1
    /\ (last.op = "simulate_tx" /\ SimulationReturned) =>
          \E i \in CallsNamed(last.calls, {"simulate_tx"}) :
             last.res = Ok(last.calls[i].remote.response)

C7_Witness ==
    /\ last.op = "broadcast_tx_async"
    /\ SimulationLacksGas
    /\ last.res = Err(CannotSimulateTxGasFee)

ModeOf(op) == IF op = "broadcast_tx_sync" THEN "sync" ELSE "async"

\* C8: a broadcast invokes, besides simulate_tx, only the transport's
\* broadcast call of its own mode; when it reaches that call, the simulate_tx
\* call has returned, the payload of the broadcast call is the one signed
\* second, with the gas scaled from the simulation's response, and the
\* broadcast call is the last call.
C8_SimulateSignBroadcastInMode ==
    last.op \in BroadcastOps =>
        /\ \A i \in 1..Len(last.calls) : last.calls[i].name \in {"simulate_tx", last.op}
        /\ \A i \in 1..Len(last.wire) :
              last.wire[i][1] \in {"http_broadcast", "broadcast_tx"}
                 => last.wire[i][2] = ModeOf(last.op)
        /\ last.res.ok => CallsNamed(last.calls, {last.op}) # {}
        /\ CallsNamed(last.calls, BroadcastOps) # {} =>
              /\ Len(last.calls) = 2
              /\ last.calls[1].name = "simulate_tx"
              /\ last.calls[1].remote.kind = "ok"
              /\ last.calls[2].name = last.op
              /\ Len(last.signed) = 2
              /\ last.calls[1].arg = last.signed[1]
              /\ last.calls[2].arg = last.signed[2]
              /\ last.signed[2].gas_limit
                   = ScaleGas(ReportedGasUsed, Unwrap(signer).gas_adjustment_percent,
                              FALSE).val

C8_Witness ==
    /\ last.op = "broadcast_tx_sync"
    /\ last.res.ok
    /\ Len(last.calls) = 2

\* the account lookup of an attach_signer observed in l answered, and its
\* response holds the account any
LookupAnswered(l) ==
    /\ l.op = "attach_signer"
    /\ Len(l.calls) = 1
    /\ l.calls[1].remote.kind = "ok"
LookupAccount(l) == l.calls[1].remote.response.account

AbsentOrUnknown(l) ==
    /\ LookupAnswered(l)
    /\ \/ IsNone(LookupAccount(l))
       \/ Unwrap(LookupAccount(l)).type_url \notin {BaseAccountUrl, VestingAccountUrl}

\* C9: an account lookup that answers no account, or an account of a type
\* other than the base and the vesting type, fails with
\* AccountDoesNotExist(address of the signer), and the step leaves the
\* client's account number and sequence number as they were.
C9_UnknownAccountIsNotFound ==
    [][ AbsentOrUnknown(last') =>
           /\ last'.res = Err(AccountDoesNotExist(Unwrap(signer').public_address))
           /\ account_id' = account_id
           /\ sequence_id' = sequence_id ]_vars

C9_Witness ==
    /\ AbsentOrUnknown(last)
    /\ IsSome(LookupAccount(last))
    /\ Unwrap(LookupAccount(last)).type_url = UnknownAccountUrl
    /\ last.res = Err(AccountDoesNotExist(Unwrap(signer).public_address))
    /\ IsNone(account_id) /\ IsNone(sequence_id)

\* the numbers (n, s) of an account any that is a base account carrying them,
\* or a vesting account wrapping a base account carrying them
CarriedNumbers(any) ==
    IF any.type_url = BaseAccountUrl /\ any.value.wire = "BaseAccount"
    THEN Some(<<any.value.account_number, any.value.sequence>>)
    ELSE IF /\ any.type_url = VestingAccountUrl
            /\ any.value.wire = "ContinuousVestingAccount"
            /\ IsSome(any.value.base_vesting_account)
            /\ IsSome(Unwrap(any.value.base_vesting_account).base_account)
    THEN LET base == Unwrap(Unwrap(any.value.base_vesting_account).base_account)
         IN  Some(<<base.account_number, base.sequence>>)
    ELSE None

\* C10: resolving a base account carrying (n, s) and resolving a vesting
\* account wrapping a base account carrying (n, s) both succeed and store
\* account number n and sequence number s.
C10_BaseAndVestingStoreSamePair ==
    (LookupAnswered(last) /\ IsSome(LookupAccount(last))) =>
        LET carried == CarriedNumbers(Unwrap(LookupAccount(last)))
        IN  IsSome(carried) =>
               /\ last.res.ok
               /\ account_id = Some(Unwrap(carried)[1])
               /\ sequence_id = Some(Unwrap(carried)[2])

C10_Witness ==
    /\ LookupAnswered(last)
    /\ IsSome(LookupAccount(last))
    /\ Unwrap(LookupAccount(last)).type_url = VestingAccountUrl
    /\ last.res.ok
    /\ account_id = Some(AccountNumberOf(Unwrap(signer).public_address))
    /\ sequence_id = Some(MaxSeq)

\* the account lookup of an attach_signer observed in l answered a
\* vesting-typed account that decodes and lacks its base vesting account or
\* the base account inside it
MalformedVesting(l) ==
    /\ LookupAnswered(l)
    /\ IsSome(LookupAccount(l))
    /\ Unwrap(LookupAccount(l)).type_url = VestingAccountUrl
    /\ Unwrap(LookupAccount(l)).value.wire = "ContinuousVestingAccount"
    /\ LET vesting == Unwrap(LookupAccount(l)).value.base_vesting_account
       IN  IsNone(vesting) \/ IsNone(Unwrap(vesting).base_account)

\* C11: resolving a vesting-typed account whose base vesting account or whose
\* inner base account is absent fails with NoVestingBaseAccount, not with
\* AccountDoesNotExist, and the step stores no numbers: the client's account
\* number and sequence number stay as they were.
C11_MalformedVestingIsRejected ==
    [][ MalformedVesting(last') =>
           /\ last'.res = Err(NoVestingBaseAccount)
           /\ account_id' = account_id
           /\ sequence_id' = sequence_id ]_vars

C11_Witness ==
    /\ MalformedVesting(last)
    /\ IsSome(Unwrap(LookupAccount(last)).value.base_vesting_account)
    /\ last.res = Err(NoVestingBaseAccount)
    /\ IsNone(account_id) /\ IsNone(sequence_id)

TransportOps == {"query", "simulate_tx", "broadcast_tx_sync", "broadcast_tx_async"}

\* the requests of the last operation that reached the node's simulation or
\* broadcast endpoint
WireSimulations ==
    {i \in 1..Len(last.wire) :
        last.wire[i] \in {<<"abci_query", SimulatePath>>, <<"simulate">>}}
WireBroadcasts ==
    {i \in 1..Len(last.wire) : last.wire[i][1] \in {"http_broadcast", "broadcast_tx"}}

\* C12: one call of query, simulate_tx, broadcast_tx_sync or broadcast_tx_async
\* invokes each operation of the transport at most once and puts at most one
\* simulation and one broadcast on the wire; a transport call that failed is
\* the last call of the operation, which returns an error.
C12_NoRetryOutsidePoller ==
    last.op \in TransportOps =>
        /\ \A name \in TransportOps : Cardinality(CallsNamed(last.calls, {name})) <= 1
        /\ Cardinality(WireSimulations) <= 1
        /\ Cardinality(WireBroadcasts) <= 1
        /\ \A i \in 1..Len(last.calls) :
              last.calls[i].remote.kind # "ok" =>
                 /\ i = Len(last.calls)
                 /\ ~last.res.ok

C12_Witness ==
    /\ last.op = "broadcast_tx_sync"
    /\ Len(last.calls) = 2
    /\ last.calls[1].remote.kind = "ok"
    /\ last.calls[2].name = "broadcast_tx_sync"
    /\ last.calls[2].remote.kind = "unreachable"
    /\ ~last.res.ok

\* the kind, in the error taxonomy of the specification, of an error::Error
ErrorKind(e) ==
    IF e[1] = "RpcError" THEN "QueryFailed"
    ELSE IF e[1] \in {"TendermintRpcError", "TonicError", "TonicStatus"}
    THEN "TransportError"
    ELSE e[1]

\* C13: on either transport, a query whose remote side reports a non-success
\* status with a log fails with the QueryFailed kind carrying that log
\* (RpcError(log)), and a query whose remote side cannot be reached fails
\* with the TransportError kind.
C13_SameErrorShapeOnBothTransports ==
    (last.op = "query" /\ Len(last.calls) = 1) =>
        LET remote == last.calls[1].remote
        IN  /\ remote.kind = "status" =>
                 /\ ~last.res.ok
                 /\ ErrorKind(last.res.err) = "QueryFailed"
                 /\ last.res.err = RpcError(remote.log)
            /\ remote.kind = "unreachable" =>
                 /\ ~last.res.ok
                 /\ ErrorKind(last.res.err) = "TransportError"

\* C14: every operation of the client ends by returning a value, a success
\* or an error of error::Error, to its caller: none ends in a panic, whatever
\* the remote side answered.
C14_NoAbnormalTermination ==
    last.op \in TransportOps \cup {"attach_signer"} => ~IsPanic(last.res)

\* C15: while poll_for_tx waits between two attempts, another ready task of
\* the same single-threaded executor can take a step.
C15_PollerYieldsWhileWaiting ==
    (pollPc = "sleep" /\ otherSteps < MaxOtherSteps) => ENABLED OtherTaskStep

\* the payloads client i has signed in its operation in flight
PairSigned(i) == IF pair[i].flight = PairIdle THEN <<>> ELSE pair[i].flight.signed

\* both clients of the pair have a signer attached, and not the same one
PairSignersDiffer ==
    /\ \A i \in PairIds : IsSome(pair[i].self.signer)
    /\ Unwrap(pair[1].self.signer).public_address
         # Unwrap(pair[2].self.signer).public_address

\* C16: when two clients with different signers run simulate_tx and
\* broadcasts concurrently, every payload a client signs carries the account
\* number and the sequence number that were resolved for the address of that
\* client's own signer, never those of the other signer.
C16_ConcurrentClientsSignOwnNumbers ==
    PairSignersDiffer =>
        \A i \in PairIds :
           \A k \in 1..Len(PairSigned(i)) :
              LET p   == PairSigned(i)[k]
                  own == Unwrap(pair[i].self.signer).public_address
              IN  /\ p.public_key = Unwrap(pair[i].self.signer).public_key
                  /\ pair[i].resolved_for = Some(own)
                  /\ p.account_number = AccountNumberOf(own)
                  /\ p.account_number = Unwrap(pair[i].self.account_id)
                  /\ p.sequence = Unwrap(pair[i].self.sequence_id)

\* both calls of Signer::sign have returned signed bytes
SignedTwice ==
    /\ signing.stage = "twice"
    /\ Unwrap(signing.first).ok
    /\ Unwrap(signing.second).ok
FirstSigned == Unwrap(signing.first).val
SecondSigned == Unwrap(signing.second).val

\* the signature of the signed bytes tx verifies against public_key and body
Verifies(tx, public_key, body) ==
    /\ SignatureOf(tx).key = public_key
    /\ SignatureOf(tx).doc.public_key = public_key
    /\ SignatureOf(tx).doc.body = body

C18_BankSendBuildsOneMsgSend ==
    last.op = "bank_send" =>
        /\ last.calls = <<>> /\ last.wire = <<>> /\ last.signed = <<>>
        /\ IF IsNone(signer)
           THEN last.res = Err(NoSignerAttached)
           ELSE /\ last.res.ok
                /\ Len(last.res.val.messages) = 1
                /\ last.res.val.messages[1] =
                      [type_url |-> MsgSendUrl,
                       from_address |-> Unwrap(signer).public_address,
                       to_address |-> last.arg[1], amount |-> last.arg[2]]
                /\ last.res.val.memo # "" <=> IsSome(last.arg[3])
                /\ IsSome(last.arg[3]) => last.res.val.memo = Unwrap(last.arg[3])

C18_Witness ==
    /\ last.op = "bank_send"
    /\ IsSome(signer)
    /\ last.res.ok
    /\ last.arg[1] # Unwrap(signer).public_address
    /\ last.res.val.messages[1].from_address = Unwrap(signer).public_address
    /\ last.res.val.memo = "thanks"

\* C19: the payload handed to rpc.simulate_tx is signed with gas 100 whatever
\* the signer's configuration, and the payload handed to the transport's
\* broadcast is the one signed second, with the gas that sign_tx scaled from
\* the simulation; both carry the caller's body as it was given and the same
\* account number and sequence number.
C19_PlaceholderThenScaledGas ==
    (last.op \in SigningOps /\ last.signed # <<>>) =>
        /\ last.signed[1].gas_limit = U64(100)
        /\ last.signed[1].body = last.arg[1]
        /\ \A i \in CallsNamed(last.calls, {"simulate_tx"}) :
              last.calls[i].arg = last.signed[1]
        /\ CallsNamed(last.calls, BroadcastOps) # {} => Len(last.signed) = 2
        /\ Len(last.signed) = 2 =>
              /\ last.op \in BroadcastOps
              /\ last.signed[2].gas_limit
                   = ScaleGas(ReportedGasUsed, Unwrap(signer).gas_adjustment_percent,
                              FALSE).val
              /\ last.signed[2].body = last.arg[1]
              /\ last.signed[2].account_number = last.signed[1].account_number
              /\ last.signed[2].sequence = last.signed[1].sequence
              /\ \A i \in CallsNamed(last.calls, BroadcastOps) :
                    last.calls[i].arg = last.signed[2]

C19_Witness ==
    /\ last.op = "broadcast_tx_async"
    /\ Len(last.signed) = 2
    /\ Unwrap(signer).gas_adjustment_percent = 50
    /\ ReportedGasUsed = U64(100000)
    /\ last.signed[1].gas_limit = U64(100)
    /\ last.signed[2].gas_limit = U64(150000)
    /\ last.signed[2].body = "body2"

\* C20: poll_for_tx waits only between two consecutive attempts: whenever it
\* waits, an attempt is still to come, and a call that ends in
\* TXPollingTimeout has waited 59 times.
C20_WaitsOnlyBetweenAttempts ==
    /\ pollPc = "sleep" => pollIter < 60
    /\ (pollPc = "done" /\ pollResult = Some(Err(TXPollingTimeout))) => pollSleeps = 59

\* the requests of the gRPC transport among the calls put on the wire
GrpcRequests == {"unary", "simulate", "broadcast_tx"}

\* the call at position i of the wire of the last operation follows step,
\* which is a readiness check or a connection
FollowsOnWire(i, step) == i > 1 /\ last.wire[i - 1] = <<step>>

\* no request of the last operation went to a node that could not be reached
NothingSentUnreachable ==
    \A i \in 1..Len(last.calls) :
       last.calls[i].remote.kind = "unreachable" =>
          /\ i = Len(last.calls)
          /\ last.wire[Len(last.wire)][1] \notin GrpcRequests

\* C21 as stated: on the gRPC transport every request (query, simulate,
\* broadcast) is preceded by an explicit readiness check of the channel, and
\* is not sent when the check fails.
C21_ReadyBeforeEveryCall ==
    rpc = "Grpc" =>
        /\ \A i \in 1..Len(last.wire) :
              last.wire[i][1] \in GrpcRequests => FollowsOnWire(i, "ready")
        /\ NothingSentUnreachable

\* C21 as amended: on the gRPC transport only query checks the readiness of
\* the client's channel before it sends; simulate_tx and both broadcasts
\* open a connection of their own for the call and make no readiness check.
\* No request is sent when the readiness check or the connection fails.
C21_ReadyBeforeQueryConnectBeforeTx ==
    rpc = "Grpc" =>
        /\ \A i \in 1..Len(last.wire) :
              /\ last.wire[i][1] = "unary" => FollowsOnWire(i, "ready")
              /\ last.wire[i][1] \in {"simulate", "broadcast_tx"} =>
                    FollowsOnWire(i, "connect")
        /\ last.op \in SigningOps =>
              \A i \in 1..Len(last.wire) : last.wire[i] # <<"ready">>
        /\ NothingSentUnreachable

C21_Witness ==
    /\ rpc = "Grpc"
    /\ last.op = "broadcast_tx_sync"
    /\ last.wire = << <<"connect">>, <<"simulate">>,
                      <<"connect">>, <<"broadcast_tx", "sync">> >>

\* the broadcast call of the last operation, when it made one
BroadcastCall == last.calls[Len(last.calls)]
BroadcastAnswered ==
    /\ last.op \in BroadcastOps
    /\ CallsNamed(last.calls, BroadcastOps) # {}
    /\ BroadcastCall.remote.kind = "ok"

\* C22: a broadcast, sync or async, that the node answered without a
\* tx_response fails: with NoneTxResponse on the gRPC transport, where such an
\* answer is a well-formed response, and with the HTTP client's error on the
\* JSON-RPC transport, where it is not one. A broadcast that succeeds carries
\* the hash of a tx_response that was there.
C22_MissingTxResponseIsAnError ==
    BroadcastAnswered =>
        /\ IsNone(BroadcastCall.remote.response.tx_response) =>
              /\ ~last.res.ok
              /\ rpc = "Grpc" => last.res = Err(NoneTxResponse)
        /\ last.res.ok =>
              /\ IsSome(BroadcastCall.remote.response.tx_response)
              /\ last.res.val.hash = "txhash"
              /\ last.res.val.mode = ModeOf(last.op)

C22_Witness ==
    /\ BroadcastAnswered
    /\ last.op = "broadcast_tx_async"
    /\ rpc = "Grpc"
    /\ IsNone(BroadcastCall.remote.response.tx_response)
    /\ last.res = Err(NoneTxResponse)

\* C23: the stored account number and sequence number belong to the attached
\* signer, and every payload that is signed carries the numbers resolved for
\* the address of the key that signs it. (update_sequence_id stores the two
\* numbers of one account together, and the chain gives every address its
\* own account number: the numbers were resolved for an address exactly when
\* the account number is that address's.)
C23_StoredNumbersBelongToSigner ==
    /\ (IsSome(signer) /\ IsSome(account_id)) =>
          Unwrap(account_id) = AccountNumberOf(Unwrap(signer).public_address)
    /\ last.op \in SigningOps =>
          \A k \in 1..Len(last.signed) :
             last.signed[k].account_number
                = AccountNumberOf(AddressOfKey(last.signed[k].signed_by))

\* C24: simulate_tx and the broadcasts fail with NoSignerAttached only when
\* no signer is attached: with a signer attached, whatever attach_signer
\* returned, they do not fail with NoSignerAttached.
C24_NoSignerAttachedOnlyWithoutSigner ==
    (last.op \in SigningOps /\ IsSome(signer)) => last.res # Err(NoSignerAttached)

\* C25: query, simulate_tx and both broadcasts leave the client's chain id,
\* signer, account number and sequence number as they were, whether they
\* succeed or fail; a step that changes one of them is an attach_signer.
C25_OnlyAttachSignerChangesClient ==
    [][ /\ last'.op \in TransportOps => clientVars' = clientVars
        /\ clientVars' # clientVars => last'.op = "attach_signer" ]_vars

\* a broadcast that the chain accepted: the chain's sequence number of the
\* signer is one above the stored one
C25_Witness ==
    /\ last.op = "broadcast_tx_sync"
    /\ last.res.ok
    /\ sequence_id = last.chain_seq
    /\ chainSeq[Unwrap(signer).public_address] = Unwrap(sequence_id) + 1

\* C26: in every state of the client the signer is set exactly when the
\* chain id is set, the account number is set exactly when the sequence
\* number is set, and the account number is set only when a signer is set.
C26_OptionalFieldsConsistent ==
    /\ IsSome(signer) <=> IsSome(chain_id)
    /\ IsSome(account_id) <=> IsSome(sequence_id)
    /\ IsSome(account_id) => IsSome(signer)

\* after an attach_signer that failed on a new client: a signer and a chain
\* id, and no numbers
C26_Witness ==
    /\ last.op = "attach_signer"
    /\ ~last.res.ok
    /\ IsSome(signer) /\ IsSome(chain_id)
    /\ IsNone(account_id) /\ IsNone(sequence_id)

\* C27: the product gas_used * (100 + pct) of the gas scaling stays within 64
\* bits: a broadcast whose simulation reported gas does not abort in the
\* multiplication, the product it divides is the exact one, and the gas limit
\* it signs is not below the gas used.
C27_ScalingStaysWithin64Bits ==
    (last.op \in BroadcastOps /\ SimulationHasGas) =>
        /\ last.res # Panic("attempt to multiply with overflow")
        /\ Len(last.signed) = 2 =>
              /\ ~Overflows64(MulExact(ReportedGasUsed,
                                       100 + Unwrap(signer).gas_adjustment_percent))
              /\ LimbsLeq(ReportedGasUsed, last.signed[2].gas_limit)

\* C28: poll_for_tx returns the found record or TXPollingTimeout and nothing
\* else, whatever the failures of the single get_tx lookups were; it makes at
\* most 60 attempts, and until it has returned it always has a next step.
C28_PollHasTwoOutcomes ==
    /\ pollIter <= 60 /\ pollQueries <= 60 /\ pollSleeps <= 60
    /\ pollPc = "done" =>
          pollResult \in {Some(Ok([tx |-> "record"])), Some(Err(TXPollingTimeout))}
    /\ pollPc # "done" => pollResult = None /\ ENABLED NextPoll

\* a call that ended in the record after lookups that failed
C28_Witness ==
    /\ pollPc = "done"
    /\ pollFoundAt = 3
    /\ pollQueries = 3
    /\ pollSleeps = 2
    /\ pollResult = Some(Ok([tx |-> "record"]))

====
